---------------------------- MODULE Spec2Model ----------------------------
(* Windowing adapters and signal generator of the time-series notebooks.  *)
(*                                                                          *)
(* TimeVAEDataset (src/dl/notebooks/time_vae.py) is modelled from its       *)
(* source.  DataFrameDataset and Pendulum live in the package ts_dl_utils,  *)
(* of which the notebooks are only callers; they are modelled from the      *)
(* written specification.                                                   *)
(*                                                                          *)
(* A table is a sequence of rows.  A Python optional (None or a value) is   *)
(* a sequence of length 0 or 1.  The result of a call is a record           *)
(* [status, value]; status "ok" is a normal return, any other status is     *)
(* the name of the exception raised.                                        *)
EXTENDS Integers, Sequences, FiniteSets, TLC

VARIABLES
    ds,     \* the TimeVAEDataset object: dataframe, window_size, dataframe_rows, length
    hds,    \* the DataFrameDataset object: dataframe, history_length, horizon, length
    pen,    \* the Pendulum object: length
    call,   \* the last call made: [op, ...arguments]
    ret,    \* what the last call returned or raised
    first,  \* <<>> or <<[idx, ret, later]>>: a recorded earlier call of get,
            \* and whether any call has been made since
    frame,  \* index and null mask of the dataset's dataframe:
            \* index_type, index (one key per row), isnull (one flag per row)
    log,    \* the set of warnings given to the logger so far
    dm      \* the TimeVAEDataModule object: window_size, dataframe, test_fraction

vars == <<ds, hds, pen, call, ret, first, frame, log, dm>>

(* ------------------------------ bounds -------------------------------- *)

MaxRows == 3        \* tables have 0..MaxRows rows
MaxWindow == 4      \* window sizes 1..MaxWindow (may exceed the table)
MaxIdx == 3         \* integer indices in -MaxIdx..MaxIdx, slice bounds in -1..MaxIdx
MaxHistory == 2     \* history lengths 1..MaxHistory
MaxHorizon == 2     \* horizons 1..MaxHorizon
MaxPendulumLength == 2   \* pendulum lengths -1..MaxPendulumLength
MaxPeriods == 2     \* num_periods in -1..MaxPeriods
MaxSamples == 3     \* num_samples_per_period in -1..MaxSamples
MaxFrameRows == 2   \* validated tables have 0..MaxFrameRows rows
FractionBits == 2   \* test fractions k / 2^FractionBits, k in 0..2^FractionBits

\* The adapters never read a cell: a row is identified by its position in
\* the original table, so that a window shows which rows it holds.
Tables == {[i \in 1..n |-> i] : n \in 0..MaxRows}
WindowSizes == 1..MaxWindow
Indices == (0 - MaxIdx)..MaxIdx
None == <<>>
Some(v) == <<v>>
SliceBounds == {None} \cup {Some(i) : i \in (0 - 1)..MaxIdx}
Steps == {None, Some(0 - 1), Some(0), Some(2)}

Min(a, b) == IF a <= b THEN a ELSE b
Max(a, b) == IF a >= b THEN a ELSE b

Ok(v) == [status |-> "ok", value |-> v]
Raise(e) == [status |-> e, value |-> <<>>]

(* --------------------------- Python helpers --------------------------- *)

\* A slice bound as Python resolves it against a sequence of n elements:
\* a negative bound counts from the end, and both ends are clamped.
SliceBound(i, n) == IF i < 0 THEN Max(i + n, 0) ELSE Min(i, n)

\* dataframe[a : b], positional, as a sequence of rows.
DfSlice(df, a, b) ==
    LET lo == SliceBound(a, Len(df))
        hi == SliceBound(b, Len(df))
    IN  IF lo >= hi THEN <<>> ELSE SubSeq(df, lo + 1, hi)

\* list(range(start, stop, step)) for step # 0.
Range(start, stop, step) ==
    LET n == IF step > 0
             THEN IF stop > start THEN (stop - start + step - 1) \div step ELSE 0
             ELSE IF start > stop
                  THEN (start - stop + (0 - step) - 1) \div (0 - step) ELSE 0
    IN  [k \in 1..n |-> start + (k - 1) * step]

(* --------------------------- TimeVAEDataset --------------------------- *)

\* __init__
TimeVAEDataset(dataframe, window_size) ==
    [dataframe      |-> dataframe,
     window_size    |-> window_size,
     dataframe_rows |-> Len(dataframe),
     length         |-> Len(dataframe) - window_size + 1]

\* A window that stops one row early.
moving_slicing_short(self, idx) ==
    DfSlice(self.dataframe, idx, self.window_size + idx - 1)

moving_slicing(self, idx) ==
    DfSlice(self.dataframe, idx, self.window_size + idx)

\* The bounds check off by one: the index `length` is let through.
getitem_int_past_end(self, idx) ==
    IF idx > self.length
    THEN Raise("IndexError")
    ELSE Ok(moving_slicing(self, idx))

\* __getitem__ with an integer index
getitem_int(self, idx) ==
    IF idx >= self.length
    THEN Raise("IndexError")
    ELSE Ok(moving_slicing(self, idx))

\* __getitem__ with a slice object [start, stop, step]; `or` evaluates its
\* right operand only when the left one is false, and comparing None with
\* an integer raises TypeError.
getitem_slice(self, s) ==
    IF s.start = None THEN Raise("TypeError")
    ELSE IF s.start[1] < 0 THEN Raise("IndexError")
    ELSE IF s.stop = None THEN Raise("TypeError")
    ELSE IF s.stop[1] >= self.length THEN Raise("IndexError")
    ELSE LET step == IF s.step # None THEN s.step[1] ELSE 1
         IN  IF step = 0 THEN Raise("ValueError")
             ELSE LET r == Range(s.start[1], s.stop[1], step)
                  IN  Ok([k \in 1..Len(r) |-> moving_slicing(self, r[k])])

\* __len__
len(self) == Ok(self.length)

\* The index and null mask of a dataframe built without an index: a
\* RangeIndex 0..n-1 and, for the generated signal, no missing value.
RangeFrame(dataframe) ==
    [index_type |-> "RangeIndex",
     index      |-> [i \in 1..Len(dataframe) |-> i - 1],
     isnull     |-> [i \in 1..Len(dataframe) |-> FALSE]]

\* dataframe.isnull().values.any()
has_na(fr) == \E i \in 1..Len(fr.isnull) : fr.isnull[i]

\* dataframe.index.equals(dataframe.index.sort_values())
has_index_sorted(fr) == fr.index = SortSeq(fr.index, LAMBDA a, b : a < b)

\* A validation that refuses an unsorted index instead of warning.
validate_dataframe_strict(fr) ==
    IF fr.index_type # "DatetimeIndex"
    THEN [ret |-> Raise("TypeError"), warnings |-> {}]
    ELSE IF ~has_index_sorted(fr)
    THEN [ret |-> Raise("ValueError"), warnings |-> {}]
    ELSE [ret |-> Ok(None),
          warnings |-> IF has_na(fr) THEN {"Dataframe has null"} ELSE {}]

\* _validate_dataframe: what it returns or raises, and what it logs
validate_dataframe(fr) ==
    IF fr.index_type # "DatetimeIndex"
    THEN [ret |-> Raise("TypeError"), warnings |-> {}]
    ELSE [ret |-> Ok(None),
          warnings |->
              (IF has_na(fr) THEN {"Dataframe has null"} ELSE {})
              \cup (IF ~has_index_sorted(fr)
                    THEN {"Dataframe index is not sorted"} ELSE {})]

(* ------------------------- TimeVAEDataModule -------------------------- *)
(* test_fraction is a float; it is held as <<numerator, denominator>>     *)
(* with a power of two as denominator, for which the product with a row   *)
(* count is exact in floating point.                                      *)

\* int(x) of the quotient num / den, den > 0: truncation towards zero
IntOf(num, den) == IF num >= 0 THEN num \div den ELSE 0 - ((0 - num) \div den)

\* __init__: the fields it assigns (val_fraction, batch_size and
\* num_workers play no part in the split by time)
TimeVAEDataModule(window_size, dataframe, test_fraction) ==
    [window_size |-> window_size, dataframe |-> dataframe,
     test_fraction |-> test_fraction]

df_length(self) == Len(self.dataframe)

df_test_length(self) ==
    IntOf(df_length(self) * self.test_fraction[1], self.test_fraction[2])

df_train_val_length(self) == df_length(self) - df_test_length(self)

\* dataframe.iloc[: df_train_val_length]
train_val_dataframe(self) == DfSlice(self.dataframe, 0, df_train_val_length(self))

\* The test table cut at the test length instead of the train length.
test_dataframe_from_test_length(self) ==
    DfSlice(self.dataframe, df_test_length(self), df_length(self))

\* dataframe.iloc[df_train_val_length :]
test_dataframe(self) ==
    DfSlice(self.dataframe, df_train_val_length(self), df_length(self))

train_val_dataset(self) == TimeVAEDataset(train_val_dataframe(self), self.window_size)

test_dataset(self) == TimeVAEDataset(test_dataframe(self), self.window_size)

\* split_train_val, called by __init__: random_split takes len(dataset),
\* and len() raises ValueError when __len__ returns a negative number.
split_train_val(self) ==
    IF train_val_dataset(self).length < 0 THEN Raise("ValueError") ELSE Ok(<<>>)

(* -------------------------- DataFrameDataset -------------------------- *)
(* History/horizon variant of the adapter, from the written contract: the *)
(* window at index is (history, future), length is                        *)
(* max(0, rows - window + 1) with window = history_length + horizon, and  *)
(* an index outside [0, length) is refused.                               *)

DataFrameDataset(dataframe, history_length, horizon) ==
    [dataframe      |-> dataframe,
     history_length |-> history_length,
     horizon        |-> horizon,
     length         |-> Max(0, Len(dataframe) - (history_length + horizon) + 1)]

\* A future that starts one row early, on the last row of the history.
history_horizon_overlapping(self, idx) ==
    IF idx < 0 \/ idx >= self.length
    THEN Raise("IndexOutOfRange")
    ELSE Ok([history |-> DfSlice(self.dataframe, idx, idx + self.history_length),
             future  |-> DfSlice(self.dataframe, idx + self.history_length - 1,
                                 idx + self.history_length + self.horizon - 1)])

\* get(index)
history_horizon_get(self, idx) ==
    IF idx < 0 \/ idx >= self.length
    THEN Raise("IndexOutOfRange")
    ELSE Ok([history |-> DfSlice(self.dataframe, idx, idx + self.history_length),
             future  |-> DfSlice(self.dataframe, idx + self.history_length,
                                 idx + self.history_length + self.horizon)])

\* length()
history_horizon_length(self) == Ok(self.length)

(* ------------------------------ Pendulum ------------------------------ *)
(* The signal generator, from the written contract.  Reals are held in    *)
(* thousandths, rounded towards zero: times in milliseconds, angles in    *)
(* milliradians, beta in thousandths per second.                          *)

Milli == 10 ^ 3
TwoPiMilli == 6283
\* 4 pi^2 / g in millionths, g the surface gravity 9.81 m/s^2
PeriodSquaredPerLength == 4024303

RECURSIVE IsqrtIn(_, _, _)
\* The integer square root of n, known to lie in lo..hi.
IsqrtIn(n, lo, hi) ==
    IF lo >= hi THEN lo
    ELSE LET mid == (lo + hi + 1) \div 2
         IN  IF mid * mid <= n THEN IsqrtIn(n, mid, hi) ELSE IsqrtIn(n, lo, mid - 1)

Isqrt(n) == IsqrtIn(n, 0, 2 ^ 15)

\* period = 2 pi sqrt(length / g), in milliseconds, for length > 0
Period(length) == Isqrt(PeriodSquaredPerLength * length)

\* cos on [0, pi/2] by its Taylor polynomial of degree 6
CosQuarter(x) ==
    LET x2 == (x * x) \div Milli
        x4 == (x2 * x2) \div Milli
        x6 == (x4 * x2) \div Milli
    IN  Milli - x2 \div 2 + x4 \div 24 - x6 \div 720

\* cos(x), x >= 0 in milliradians
Cos(x) ==
    LET r == x % TwoPiMilli
        h == IF 2 * r > TwoPiMilli THEN TwoPiMilli - r ELSE r
    IN  IF 4 * h > TwoPiMilli
        THEN 0 - CosQuarter(TwoPiMilli \div 2 - h)
        ELSE CosQuarter(h)

\* exp(-y) for 0 <= y < 1 by its Taylor polynomial of degree 3
ExpNeg(y) ==
    LET y2 == (y * y) \div Milli
        y3 == (y2 * y) \div Milli
    IN  Milli - y + y2 \div 2 - y3 \div 6

Pendulum(length) == [length |-> length]

\* The k-th sample, k counted from 0.
Sample(self, k, num_samples_per_period, initial_angle, beta) ==
    LET period == Period(self.length)
        t == (k * period) \div num_samples_per_period
        cos == Cos((TwoPiMilli * t) \div period)
        damp == ExpNeg((beta * t) \div Milli)
    IN  [t |-> t, theta |-> (((initial_angle * cos) \div Milli) * damp) \div Milli]

\* A generator that checks the pendulum length only.
generate_unchecked_counts(self, num_periods, num_samples_per_period, initial_angle, beta) ==
    IF self.length <= 0
    THEN Raise("InvalidParameter")
    ELSE Ok([k \in 1..(num_periods * num_samples_per_period) |->
                Sample(self, k - 1, num_samples_per_period, initial_angle, beta)])

\* A generator that samples both ends of the last period.
generate_one_more(self, num_periods, num_samples_per_period, initial_angle, beta) ==
    IF self.length <= 0 \/ num_periods <= 0 \/ num_samples_per_period <= 0
    THEN Raise("InvalidParameter")
    ELSE Ok([k \in 1..(num_periods * num_samples_per_period + 1) |->
                Sample(self, k - 1, num_samples_per_period, initial_angle, beta)])

\* The generator called with its parameters.
generate(self, num_periods, num_samples_per_period, initial_angle, beta) ==
    IF self.length <= 0 \/ num_periods <= 0 \/ num_samples_per_period <= 0
    THEN Raise("InvalidParameter")
    ELSE Ok([k \in 1..(num_periods * num_samples_per_period) |->
                Sample(self, k - 1, num_samples_per_period, initial_angle, beta)])

(* ------------------------------ actions ------------------------------- *)

NoDataset == [dataframe |-> <<>>, history_length |-> 0, horizon |-> 0, length |-> 0]
NoPendulum == [length |-> 0]
NoDataModule == [window_size |-> 1, dataframe |-> <<>>, test_fraction |-> <<0, 1>>]

Init ==
    /\ \E df \in Tables, w \in WindowSizes : ds = TimeVAEDataset(df, w)
    /\ hds = NoDataset
    /\ pen = NoPendulum
    /\ call = [op |-> "init"]
    /\ ret = Ok(<<>>)
    /\ first = <<>>
    /\ frame = RangeFrame(ds.dataframe)
    /\ log = {}
    /\ dm = NoDataModule

\* Bookkeeping of the recorded call: every call after it marks it as past.
Later(f) == IF f = <<>> THEN f ELSE <<[f[1] EXCEPT !.later = TRUE]>>

Length ==
    /\ call' = [op |-> "len"]
    /\ ret' = len(ds)
    /\ first' = Later(first)
    /\ UNCHANGED <<ds, hds, pen, frame, log, dm>>

\* A get that consumes the window it returns, as an iterator would.
GetItemConsuming ==
    \E idx \in Indices :
        /\ call' = [op |-> "get", idx |-> idx]
        /\ ret' = getitem_int(ds, idx)
        /\ ds' = IF getitem_int(ds, idx).status = "ok"
                 THEN TimeVAEDataset(DfSlice(ds.dataframe, 1, ds.dataframe_rows),
                                     ds.window_size)
                 ELSE ds
        /\ first' = Later(first)
        /\ UNCHANGED <<hds, pen, frame, log, dm>>

GetItem ==
    \E idx \in Indices, record \in BOOLEAN :
        /\ call' = [op |-> "get", idx |-> idx]
        /\ ret' = getitem_int(ds, idx)
        /\ first' = IF first = <<>> /\ record
                    THEN <<[idx |-> idx, ret |-> getitem_int(ds, idx), later |-> FALSE]>>
                    ELSE Later(first)
        /\ UNCHANGED <<ds, hds, pen, frame, log, dm>>

GetSlice ==
    \E start \in SliceBounds, stop \in SliceBounds, step \in Steps :
        LET s == [start |-> start, stop |-> stop, step |-> step]
        IN  /\ call' = [op |-> "slice", slice |-> s]
            /\ ret' = getitem_slice(ds, s)
            /\ first' = Later(first)
            /\ UNCHANGED <<ds, hds, pen, frame, log, dm>>

Next == Length \/ GetItem \/ GetSlice

Spec == Init /\ [][Next]_vars

(* ------------------ validation of the dataframe ----------------------- *)

IndexTypes == {"DatetimeIndex", "Index"}
IndexKeys == {1, 2}
FrameTables == {[i \in 1..n |-> i] : n \in 0..MaxFrameRows}

\* __init__ assigns the fields and never calls _validate_dataframe, so a
\* dataset exists over every table, whatever its index.
InitValidate ==
    /\ \E df \in FrameTables, w \in WindowSizes, type \in IndexTypes :
          /\ ds = TimeVAEDataset(df, w)
          /\ \E index \in [1..Len(df) -> IndexKeys], isnull \in [1..Len(df) -> BOOLEAN] :
                frame = [index_type |-> type, index |-> index, isnull |-> isnull]
    /\ hds = NoDataset
    /\ pen = NoPendulum
    /\ call = [op |-> "init"]
    /\ ret = Ok(<<>>)
    /\ first = <<>>
    /\ log = {}
    /\ dm = NoDataModule

ValidateDataframe ==
    /\ call' = [op |-> "validate"]
    /\ ret' = validate_dataframe(frame).ret
    /\ log' = log \cup validate_dataframe(frame).warnings
    /\ first' = Later(first)
    /\ UNCHANGED <<ds, hds, pen, frame, dm>>

NextValidate == ValidateDataframe \/ Length \/ GetItem

SpecValidate == InitValidate /\ [][NextValidate]_vars

(* ----------------------- the data module in use ----------------------- *)

TestFractions == {<<k, 2 ^ FractionBits>> : k \in 0..(2 ^ FractionBits)}

InitDataModule ==
    /\ \E df \in Tables, w \in WindowSizes, f \in TestFractions :
          dm = TimeVAEDataModule(w, df, f)
    /\ ds = TimeVAEDataset(<<>>, 1)
    /\ hds = NoDataset
    /\ pen = NoPendulum
    /\ call = [op |-> "init"]
    /\ ret = split_train_val(dm)
    /\ first = <<>>
    /\ frame = RangeFrame(dm.dataframe)
    /\ log = {}

\* No object is left to call when __init__ has raised.
Constructed == ~(call.op = "init" /\ ret.status # "ok")

TrainValDataframe ==
    /\ Constructed
    /\ call' = [op |-> "train_val_dataframe"]
    /\ ret' = Ok(train_val_dataframe(dm))
    /\ UNCHANGED <<ds, hds, pen, first, frame, log, dm>>

TestDataframe ==
    /\ Constructed
    /\ call' = [op |-> "test_dataframe"]
    /\ ret' = Ok(test_dataframe(dm))
    /\ UNCHANGED <<ds, hds, pen, first, frame, log, dm>>

TestDatasetGetItem ==
    /\ Constructed
    /\ \E idx \in Indices :
          /\ call' = [op |-> "test_dataset.get", idx |-> idx]
          /\ ret' = getitem_int(test_dataset(dm), idx)
    /\ UNCHANGED <<ds, hds, pen, first, frame, log, dm>>

NextDataModule == TrainValDataframe \/ TestDataframe \/ TestDatasetGetItem

SpecDataModule == InitDataModule /\ [][NextDataModule]_vars

(* ---------------- the history/horizon adapter in use ------------------ *)

InitDataFrameDataset ==
    /\ \E df \in Tables, h \in 1..MaxHistory, f \in 1..MaxHorizon :
          hds = DataFrameDataset(df, h, f)
    /\ ds = TimeVAEDataset(<<>>, 1)
    /\ pen = NoPendulum
    /\ call = [op |-> "init"]
    /\ ret = Ok(<<>>)
    /\ first = <<>>
    /\ frame = RangeFrame(<<>>)
    /\ log = {}
    /\ dm = NoDataModule

HistoryHorizonLength ==
    /\ call' = [op |-> "len"]
    /\ ret' = history_horizon_length(hds)
    /\ UNCHANGED <<ds, hds, pen, first, frame, log, dm>>

HistoryHorizonGet ==
    \E idx \in Indices :
        /\ call' = [op |-> "get", idx |-> idx]
        /\ ret' = history_horizon_get(hds, idx)
        /\ UNCHANGED <<ds, hds, pen, first, frame, log, dm>>

NextDataFrameDataset == HistoryHorizonLength \/ HistoryHorizonGet

SpecDataFrameDataset == InitDataFrameDataset /\ [][NextDataFrameDataset]_vars

(* --------------------- the signal generator in use -------------------- *)

InitialAngles == {0 - 500, 1000}
Betas == {0, 1, 10}

InitPendulum ==
    /\ \E length \in (0 - 1)..MaxPendulumLength : pen = Pendulum(length)
    /\ ds = TimeVAEDataset(<<>>, 1)
    /\ hds = NoDataset
    /\ call = [op |-> "init"]
    /\ ret = Ok(<<>>)
    /\ first = <<>>
    /\ frame = RangeFrame(<<>>)
    /\ log = {}
    /\ dm = NoDataModule

Generate ==
    \E num_periods \in (0 - 1)..MaxPeriods,
       num_samples_per_period \in (0 - 1)..MaxSamples,
       initial_angle \in InitialAngles, beta \in Betas :
        /\ call' = [op |-> "generate", num_periods |-> num_periods,
                    num_samples_per_period |-> num_samples_per_period,
                    initial_angle |-> initial_angle, beta |-> beta]
        /\ ret' = generate(pen, num_periods, num_samples_per_period,
                           initial_angle, beta)
        /\ UNCHANGED <<ds, hds, pen, first, frame, log, dm>>

NextPendulum == Generate

SpecPendulum == InitPendulum /\ [][NextPendulum]_vars

(* ------------------- claims about TimeVAEDataset ---------------------- *)

Rows == Len(ds.dataframe)
IsGet == call.op = "get"
IsSlice == call.op = "slice"

\* The rows i, i+1, ..., i+n-1 (counted from 0) of a table.
RowsFrom(df, i, n) == [k \in 1..n |-> df[i + k]]

\* C1: for every table and every window size, also one larger than the
\* table, length() equals max(0, rows - window_size + 1) and is never negative.
C1_LengthIsClamped ==
    call.op = "len" =>
        /\ ret = Ok(Max(0, Rows - ds.window_size + 1))
        /\ ret.value >= 0

\* C2: get(index) fails with IndexError for every index outside
\* [0, length()), below 0 as well as at or above length(), and returns no window.
C2_GetOutsideRangeFails ==
    (IsGet /\ (call.idx < 0 \/ call.idx >= ds.length)) => ret = Raise("IndexError")

\* The example of C3: a 1000-row table with a window of 101 rows.
ExampleDataset == TimeVAEDataset([i \in 1..1000 |-> i], 101)

C3_Example ==
    /\ len(ExampleDataset) = Ok(900)
    /\ getitem_int(ExampleDataset, 899) = Ok([k \in 1..101 |-> 899 + k])
    /\ getitem_int(ExampleDataset, 900) = Raise("IndexError")

\* C3: whenever length() >= 1, get(0) and get(length()-1) succeed,
\* get(length()-1) returns the last window_size rows of the table, and
\* get(length()) fails with IndexError; so for the 1000-row example.
C3_EndsOfRange ==
    /\ (IsGet /\ ds.length >= 1) =>
          /\ call.idx = 0 => ret.status = "ok"
          /\ call.idx = ds.length - 1 =>
                ret = Ok(RowsFrom(ds.dataframe, Rows - ds.window_size, ds.window_size))
          /\ call.idx = ds.length => ret = Raise("IndexError")
    /\ C3_Example

\* get(length()-1) has returned the final window of a dataset of several windows.
C3_Witness ==
    /\ IsGet /\ ds.length >= 2 /\ call.idx = ds.length - 1
    /\ ret.status = "ok" /\ ret.value[ds.window_size] = Rows

\* C4: a slice [start, stop) with 0 <= start <= stop <= length(), the one
\* ending at stop = length() included, succeeds and returns
\* get(start), ..., get(stop-1) in that order.
C4_ValidSliceReturnsWindows ==
    (/\ IsSlice
     /\ call.slice.start # None /\ call.slice.stop # None /\ call.slice.step = None
     /\ 0 <= call.slice.start[1]
     /\ call.slice.start[1] <= call.slice.stop[1]
     /\ call.slice.stop[1] <= ds.length)
    => ret = Ok([k \in 1..(call.slice.stop[1] - call.slice.start[1]) |->
                    getitem_int(ds, call.slice.start[1] + k - 1).value])

\* The indices a contiguous slice addresses, an omitted start standing for
\* 0 and an omitted stop for length().
Addressed(self, s) ==
    Range(IF s.start = None THEN 0 ELSE s.start[1],
          IF s.stop = None THEN Max(0, self.length) ELSE s.stop[1], 1)

AddressesOutside(self, s) ==
    \/ s.start # None /\ s.start[1] < 0
    \/ \E k \in 1..Len(Addressed(self, s)) : Addressed(self, s)[k] >= self.length

\* C5: a slice fails with IndexError if and only if one of its bounds
\* addresses an index outside [0, length()), and a slice with an omitted
\* bound goes through that same check, not through another failure.
C5_SliceBoundsCheckedAsGet ==
    (IsSlice /\ call.slice.step = None) =>
        /\ ret.status \in {"ok", "IndexError"}
        /\ ret.status = "IndexError" <=> AddressesOutside(ds, call.slice)

\* C6: for every valid index i the window get(i) has exactly window_size
\* rows and is the table rows i, i+1, ..., i+window_size-1 in table order.
C6_WindowIsContiguousRows ==
    (IsGet /\ 0 <= call.idx /\ call.idx < ds.length) =>
        /\ ret.status = "ok"
        /\ Len(ret.value) = ds.window_size
        /\ \A k \in 1..ds.window_size : ret.value[k] = ds.dataframe[call.idx + k]

\* get has returned a window of several rows that starts inside the table.
C6_Witness ==
    /\ IsGet /\ 0 < call.idx /\ call.idx < ds.length
    /\ ds.window_size >= 2
    /\ ret = Ok(RowsFrom(ds.dataframe, call.idx, ds.window_size))

\* C8: no call of length(), get or slice access, successful or failing,
\* changes the table, the window size or the length of the dataset, and a
\* repeated get(index) returns what the recorded earlier call returned.
C8_Idempotent ==
    /\ [][ds' = ds]_vars
    /\ [](first # <<>> /\ IsGet /\ call.idx = first[1].idx => ret = first[1].ret)

\* get(index) was recorded and, one or more calls later, get(index) has
\* just returned a window again.
C8_Witness ==
    /\ first # <<>> /\ first[1].later
    /\ IsGet /\ call.idx = first[1].idx
    /\ ret.status = "ok" /\ Len(ret.value) >= 2

(* ------------------ claims about DataFrameDataset --------------------- *)

\* C7: for every valid index, get(index) is a pair (history, future):
\* history has history_length rows, future has horizon rows, future starts
\* on the row after the last row of history, no row is in both, and history
\* followed by future is the table rows
\* [index, index + history_length + horizon) in order.
C7_HistoryThenFuture ==
    (IsGet /\ 0 <= call.idx /\ call.idx < hds.length) =>
        /\ ret.status = "ok"
        /\ Len(ret.value.history) = hds.history_length
        /\ Len(ret.value.future) = hds.horizon
        /\ ret.value.future[1] = ret.value.history[hds.history_length] + 1
        /\ \A i \in 1..hds.history_length, j \in 1..hds.horizon :
              ret.value.history[i] # ret.value.future[j]
        /\ ret.value.history \o ret.value.future
              = RowsFrom(hds.dataframe, call.idx, hds.history_length + hds.horizon)

\* get has returned a history of several rows and the future after it.
C7_Witness ==
    /\ IsGet /\ 0 <= call.idx /\ call.idx < hds.length
    /\ hds.history_length >= 2
    /\ ret.status = "ok" /\ Len(ret.value.history) >= 2 /\ Len(ret.value.future) >= 1

(* ---------------------- claims about Pendulum ------------------------- *)

IsGenerate == call.op = "generate"
ParametersPositive ==
    pen.length > 0 /\ call.num_periods > 0 /\ call.num_samples_per_period > 0

\* The example of C9: length 100, 10 periods of 400 samples, initial angle
\* 1, beta 0.001.
ExampleTable == generate(Pendulum(100), 10, 400, 1000, 1)

C9_Example ==
    /\ ExampleTable.status = "ok"
    /\ Len(ExampleTable.value) = 4000
    /\ ExampleTable.value[1].theta = 1000
    /\ \A k \in 1..3999 : ExampleTable.value[k].t < ExampleTable.value[k + 1].t

\* C9: for positive generator parameters the table has exactly
\* num_periods * num_samples_per_period rows, t increases strictly from
\* row to row, and theta of the first row is initial_angle; so for the
\* example of 4000 rows.
C9_TableShape ==
    /\ (IsGenerate /\ ParametersPositive) =>
          /\ ret.status = "ok"
          /\ Len(ret.value) = call.num_periods * call.num_samples_per_period
          /\ \A k \in 1..(Len(ret.value) - 1) : ret.value[k].t < ret.value[k + 1].t
          /\ ret.value[1].theta = call.initial_angle
    /\ C9_Example

\* The generator has produced a damped table of several periods.
C9_Witness ==
    /\ IsGenerate /\ ParametersPositive
    /\ call.num_periods >= 2 /\ call.num_samples_per_period >= 2 /\ call.beta > 0
    /\ ret.status = "ok" /\ Len(ret.value) >= 4

\* C10: the generator fails with InvalidParameter and produces no table
\* whenever the pendulum length, num_periods or num_samples_per_period is
\* non-positive, and does not fail when all of them are positive.
C10_InvalidParameter ==
    IsGenerate =>
        /\ ~ParametersPositive => ret = Raise("InvalidParameter")
        /\ ParametersPositive => ret.status = "ok"

\* The generator has refused a sample count of zero for a valid pendulum.
C10_Witness ==
    /\ IsGenerate /\ pen.length > 0 /\ call.num_periods > 0
    /\ call.num_samples_per_period = 0
    /\ ret = Raise("InvalidParameter")

(* ---------------------- claims about validation ----------------------- *)

IsValidate == call.op = "validate"
NeedsWarning == has_na(frame) \/ ~has_index_sorted(frame)

\* The dataset is the one built over the table: no row was dropped or
\* moved, and the last length() or get returned what it returns for it.
DatasetAsBuilt ==
    /\ ds = TimeVAEDataset([i \in 1..Len(frame.index) |-> i], ds.window_size)
    /\ call.op = "len" => ret = Ok(Len(frame.index) - ds.window_size + 1)
    /\ (IsGet /\ ret.status = "ok") =>
          ret.value = DfSlice([i \in 1..Len(frame.index) |-> i], call.idx,
                              call.idx + ds.window_size)

\* C11 as first stated: whenever the index is not sorted or the table has
\* missing values, validation logs a warning and does not fail, and the
\* dataset, its length() and its get results are unaffected.
C11_WarnsAndProceeds ==
    /\ (IsValidate /\ NeedsWarning) => (ret.status = "ok" /\ log # {})
    /\ DatasetAsBuilt

\* C11 as amended: for a table whose index is a DatetimeIndex, an unsorted
\* index and missing values are each logged as a warning, validation
\* returns normally, and the dataset, its length() and its get results are
\* those of the table as built.
C11_WarnsAndProceedsOnDatetimeIndex ==
    /\ (IsValidate /\ frame.index_type = "DatetimeIndex") =>
          /\ ret = Ok(None)
          /\ has_na(frame) <=> "Dataframe has null" \in log
          /\ ~has_index_sorted(frame) <=> "Dataframe index is not sorted" \in log
    /\ DatasetAsBuilt

\* After both warnings were logged for an unsorted table with a missing
\* value, get has returned a window of several rows.
C11_Witness ==
    /\ frame.index_type = "DatetimeIndex"
    /\ has_na(frame) /\ ~has_index_sorted(frame)
    /\ Cardinality(log) = 2
    /\ IsGet /\ ret.status = "ok" /\ Len(ret.value) >= 2

\* C12: constructing the adapter over a table whose index is not a
\* DatetimeIndex fails with TypeError, so that no dataset over such a table
\* is ever indexed.
C12_ConstructionRejectsIndexType ==
    frame.index_type # "DatetimeIndex" =>
        /\ call.op = "init" => ret.status = "TypeError"
        /\ ~(IsGet /\ ret.status = "ok")

(* ------------------- claims about TimeVAEDataModule ------------------- *)

\* rows - floor(rows * test_fraction)
TrainValRows ==
    Len(dm.dataframe)
        - (Len(dm.dataframe) * dm.test_fraction[1]) \div dm.test_fraction[2]

\* C13: for every table and every test_fraction in [0, 1] the
\* train/validation table is the first rows - floor(rows * test_fraction)
\* rows and the test table the remaining rows, the two in order cover every
\* row exactly once, and no window of the test dataset holds a row of the
\* train/validation table.
C13_SplitByTime ==
    /\ call.op = "train_val_dataframe" =>
          ret = Ok(RowsFrom(dm.dataframe, 0, TrainValRows))
    /\ call.op = "test_dataframe" =>
          ret = Ok(RowsFrom(dm.dataframe, TrainValRows,
                            Len(dm.dataframe) - TrainValRows))
    /\ train_val_dataframe(dm) \o test_dataframe(dm) = dm.dataframe
    /\ (call.op = "test_dataset.get" /\ ret.status = "ok") =>
          \A j \in 1..Len(ret.value) : ret.value[j] > TrainValRows

\* The test dataset of a table split into a train/validation part and a
\* test part, both with rows, has returned a window of several rows.
C13_Witness ==
    /\ 0 < TrainValRows /\ TrainValRows < Len(dm.dataframe)
    /\ call.op = "test_dataset.get" /\ ret.status = "ok" /\ Len(ret.value) >= 2

=============================================================================
